---- MODULE Spec2Model ----
(***************************************************************************)
(* Model of the issue-triage task of the repo-gardening action             *)
(* (projects/github-actions/repo-gardening/src/tasks/triage-issues).       *)
(*                                                                         *)
(* Texts are modelled by what the code does with them:                     *)
(*  - an issue body is the sequence of its lines (the body split at "\n"), *)
(*    a line is a sequence of atoms; an atom is a run of characters that   *)
(*    the regular expressions of the task treat alike: a section header, a *)
(*    word of letters, a word with a hyphen, ",", " ", a template answer;  *)
(*  - a label name "[P] text" is the pair <<"[P]", text>>, text a line;    *)
(*  - a board link is the sequence of its "/"-separated segments, the      *)
(*    project number a sequence of digits.                                 *)
(***************************************************************************)
EXTENDS Integers, Sequences, FiniteSets, TLC

VARIABLES
    projectToken,      \* getInput( 'project_automation_token' ): "" when absent
    projectBoardLink,  \* getInput( 'project_board' ): <<>> when absent
    action,            \* payload.action
    body,              \* payload.issue.body
    node_id,           \* payload.issue.node_id
    eventLabel,        \* payload.label.name, NoName when the payload has none
    issueLabels,       \* the labels on the issue, as the label API lists them
    pc,                \* position of the run in triageIssues
    calls,             \* the remote calls the run has issued, in order
    failure,           \* the message given to setFailed, "" when none
    thrown,            \* the exception that ended the run, "" when none
    projectInfo,       \* local projectInfo (result of getProjectDetails)
    itemId,            \* local itemId
    itemNodeId,        \* local itemNodeId
    priorityText,      \* local priorityText
    priorityLabels,    \* local priorityLabels
    priority,          \* local priority
    isBugIssue,        \* local isBugIssue
    isEscalated,       \* the result of hasEscalatedLabel
    boardValues,       \* the board: the option each item holds in each field
    otherRun,          \* a second run of triageIssues for the same issue
    hook               \* an instance of the useVideoPlayer hook

vars == << projectToken, projectBoardLink, action, body, node_id, eventLabel,
           issueLabels, pc, calls, failure, thrown, projectInfo, itemId,
           itemNodeId, priorityText, priorityLabels, priority, isBugIssue,
           isEscalated, boardValues, otherRun, hook >>

(***************************************************************************)
(* Bounds of the model.                                                    *)
(***************************************************************************)
\* Most entries of a generated plugin or platform list.
MaxEntries == 2
\* Most labels on the issue when the run starts.
MaxIssueLabels == 2

(***************************************************************************)
(* Sequences.                                                              *)
(***************************************************************************)
RECURSIVE Concat(_)
Concat(ss) == IF ss = <<>> THEN <<>> ELSE Head(ss) \o Concat(Tail(ss))

RECURSIVE SelectSeqOf(_, _)
\* The subsequence of s whose elements are in set S.
SelectSeqOf(s, S) ==
    IF s = <<>> THEN <<>>
    ELSE IF Head(s) \in S THEN <<Head(s)>> \o SelectSeqOf(Tail(s), S)
    ELSE SelectSeqOf(Tail(s), S)

Range(s) == { s[i] : i \in 1..Len(s) }

\* JavaScript undefined, for the locals that hold a string.
Undefined == "undefined"

(***************************************************************************)
(* Atoms of body text.                                                     *)
(***************************************************************************)
H_PLUGIN   == "### Impacted plugin"
H_PLATFORM == "### Platform (Simple and/or Atomic)"
H_IMPACT   == "### Impact"
H_WORK     == "### Available workarounds?"

\* Runs of [a-zA-Z].
LetterWords == { "Alpha", "Beta", "Simple", "Atomic" }
\* Runs of [a-zA-Z-] holding a hyphen.
HyphenWords == { "Self-hosted" }
\* Runs holding a character outside [a-zA-Z ,-].
OtherWords  == { "v2.0" }

\* The character class [a-zA-Z ,] of findPlugins.
PluginClass == LetterWords \cup { ",", " " }
\* The character class [a-zA-Z ,-] of findPlatforms.
PlatformClass == LetterWords \cup HyphenWords \cup { ",", " ", "-" }

InClass(line, class) == \A k \in 1..Len(line) : line[k] \in class

\* String.prototype.trim() !== '': some character is not white space.
TrimNonEmpty(entry) == \E k \in 1..Len(entry) : entry[k] # " "

RECURSIVE SplitFrom(_, _, _)
\* String.prototype.split( ', ' ): cur is the entry being read.
SplitFrom(line, k, cur) ==
    IF k > Len(line) THEN << cur >>
    ELSE IF k < Len(line) /\ line[k] = "," /\ line[k + 1] = " "
         THEN << cur >> \o SplitFrom(line, k + 2, <<>>)
         ELSE SplitFrom(line, k + 1, Append(cur, line[k]))

Split(line) == SplitFrom(line, 1, <<>>)

\* A header ends the line (nothing of the patterns anchors its start).
EndsWith(line, header) == Len(line) > 0 /\ line[Len(line)] = header

(***************************************************************************)
(* findPlugins, findPlatforms, findPriority.                               *)
(***************************************************************************)
\* The places where /###\sImpacted\splugin\n\n([a-zA-Z ,]*)\n\n/ matches:
\* header, empty line, a line of the class, empty line, and a line after it.
PluginMatches(b) ==
    { i \in 1..Len(b) :
         /\ i + 4 <= Len(b)
         /\ EndsWith(b[i], H_PLUGIN)
         /\ b[i + 1] = <<>>
         /\ InClass(b[i + 2], PluginClass)
         /\ b[i + 3] = <<>> }

Min(S) == CHOOSE x \in S : \A y \in S : x <= y

KeepPlugin(v) == TrimNonEmpty(v)

findPlugins(b) ==
    IF PluginMatches(b) # {}
    THEN LET plugins == b[Min(PluginMatches(b)) + 2]
         IN  SelectSeqOf(Split(plugins),
                         { v \in Range(Split(plugins)) : KeepPlugin(v) })
    ELSE <<>>

PlatformMatches(b) ==
    { i \in 1..Len(b) :
         /\ i + 4 <= Len(b)
         /\ EndsWith(b[i], H_PLATFORM)
         /\ b[i + 1] = <<>>
         /\ InClass(b[i + 2], PlatformClass)
         /\ b[i + 3] = <<>> }

KeepPlatform(platform) == platform # << "Self-hosted" >> /\ TrimNonEmpty(platform)

findPlatforms(b) ==
    IF PlatformMatches(b) # {}
    THEN LET platforms == b[Min(PlatformMatches(b)) + 2]
         IN  SelectSeqOf(Split(platforms),
                         { p \in Range(Split(platforms)) : KeepPlatform(p) })
    ELSE <<>>

\* The places where the pattern of findPriority matches: "### Impact", an
\* empty line, the impact line, an empty line, "### Available workarounds?"
\* alone on its line, an empty line, the answer line and a line break.
PriorityMatches(b) ==
    { i \in 1..Len(b) :
         /\ i + 7 <= Len(b)
         /\ EndsWith(b[i], H_IMPACT)
         /\ b[i + 1] = <<>>
         /\ b[i + 3] = <<>>
         /\ b[i + 4] = << H_WORK >>
         /\ b[i + 5] = <<>> }

\* findPriority with the two results of its first branch exchanged.
PriorityOfSwapped(impact, blocking) ==
    IF blocking = << "No and the platform is unusable" >>
    THEN (IF impact = << "One" >> THEN "BLOCKER" ELSE "High")
    ELSE IF blocking = << "No but the platform is still usable" >>
    THEN "High"
    ELSE IF blocking = << "Yes, difficult to implement" >>
    THEN (IF impact = << "All" >> THEN "High" ELSE "Normal")
    ELSE IF blocking # <<>> /\ blocking # << "_No response_" >>
    THEN (IF impact = << "All" >> \/ impact = << "Most (> 50%)" >>
          THEN "Normal" ELSE "Low")
    ELSE "TBD"

\* The branches of findPriority on the two captured groups.
PriorityOf(impact, blocking) ==
    IF blocking = << "No and the platform is unusable" >>
    THEN (IF impact = << "One" >> THEN "High" ELSE "BLOCKER")
    ELSE IF blocking = << "No but the platform is still usable" >>
    THEN "High"
    ELSE IF blocking = << "Yes, difficult to implement" >>
    THEN (IF impact = << "All" >> THEN "High" ELSE "Normal")
    ELSE IF blocking # <<>> /\ blocking # << "_No response_" >>
    THEN (IF impact = << "All" >> \/ impact = << "Most (> 50%)" >>
          THEN "Normal" ELSE "Low")
    ELSE "TBD"

\* findPriority falling back to Low where no section is found.
findPriorityLowByDefault(b) ==
    IF PriorityMatches(b) # {}
    THEN LET i == Min(PriorityMatches(b))
         IN  PriorityOf(b[i + 2], b[i + 6])
    ELSE "Low"

findPriority(b) ==
    IF PriorityMatches(b) # {}
    THEN LET i == Min(PriorityMatches(b))
         IN  PriorityOf(b[i + 2], b[i + 6])
    ELSE "TBD"

(***************************************************************************)
(* Labels and the label-state checks.                                      *)
(***************************************************************************)
Label(prefix, text) == << prefix, text >>

\* payload.label.name when the payload carries no label (label = {}).
NoName == << "", <<>> >>

TypeBug  == Label("[Type]", << "Bug" >>)
PriLabel(tier) == Label("[Pri]", << tier >>)

\* label.match( /^\[Pri\].*$/ )
IsPriLabel(l) == l[1] = "[Pri]"

\* utils/get-labels: the names of the labels now on the issue.
getLabels(onIssue) == onIssue

\* hasPriorityLabels, given the labels that getLabels returned.
hasPriorityLabels(listed, act, evLabel) ==
    LET labels == IF "labeled" = act /\ evLabel # NoName /\ IsPriLabel(evLabel)
                  THEN Append(listed, evLabel)
                  ELSE listed
    IN  SelectSeqOf(labels, { l \in Range(labels) : IsPriLabel(l) })

\* isBug taking any [Type] label for a bug.
isBugOfAnyType(listed, act, evLabel) ==
    IF \E k \in 1..Len(listed) : listed[k][1] = "[Type]" THEN TRUE
    ELSE IF "labeled" = act /\ evLabel # NoName /\ evLabel[1] = "[Type]" THEN TRUE
    ELSE FALSE

\* isBug, given the labels that getLabels returned (undefined is FALSE).
isBug(listed, act, evLabel) ==
    IF TypeBug \in Range(listed) THEN TRUE
    ELSE IF "labeled" = act /\ evLabel # NoName /\ TypeBug = evLabel THEN TRUE
    ELSE FALSE

Escalated == Label("[Status]", << "Escalated" >>)
EscalatedToKitkat == Label("[Status]", << "Escalated", " ", "to", " ", "Kitkat" >>)

\* eventLabel.name.match( /^\[Status\] Escalated.*$/ )
IsEscalatedName(l) == l[1] = "[Status]" /\ l[2] # <<>> /\ l[2][1] = "Escalated"

\* hasEscalatedLabel taking the event label whatever the action.
hasEscalatedLabelOnAnyAction(listed, act, evLabel) ==
    IF Escalated \in Range(listed) \/ EscalatedToKitkat \in Range(listed) THEN TRUE
    ELSE IF evLabel # NoName /\ IsEscalatedName(evLabel) THEN TRUE
    ELSE FALSE

\* hasEscalatedLabel, given the labels that getLabels returned (undefined is
\* FALSE).
hasEscalatedLabel(listed, act, evLabel) ==
    IF Escalated \in Range(listed) \/ EscalatedToKitkat \in Range(listed) THEN TRUE
    ELSE IF "labeled" = act /\ evLabel # NoName /\ IsEscalatedName(evLabel) THEN TRUE
    ELSE FALSE

\* issues.addLabels on the label API: the labels are added to the issue's
\* set, a label already there is not added twice.
AddedTo(onIssue, labels) ==
    onIssue \o SelectSeqOf(labels, Range(labels) \ Range(onIssue))

\* impactedPlugins.map( plugin => `[Plugin] ${ plugin }` )
pluginLabels(impactedPlugins) ==
    [ k \in 1..Len(impactedPlugins) |-> Label("[Plugin]", impactedPlugins[k]) ]

\* impactedPlatforms.map( platform => `[Platform] ${ platform }` )
platformLabels(impactedPlatforms) ==
    [ k \in 1..Len(impactedPlatforms) |-> Label("[Platform]", impactedPlatforms[k]) ]

(***************************************************************************)
(* The inputs of a run.                                                    *)
(***************************************************************************)
Actions == { "opened", "reopened", "labeled", "edited", "closed" }

\* The labels an issue may carry before the run, in the order listed.
LabelUniverse == << PriLabel("High"), TypeBug,
                    Label("[Type]", << "Enhancement" >>),
                    Label("[Status]", << "Escalated" >>) >>

RECURSIVE SubSeqs(_)
\* The subsequences of s.
SubSeqs(s) ==
    IF s = <<>> THEN { <<>> }
    ELSE LET rest == SubSeqs(Tail(s))
         IN  rest \cup { << Head(s) >> \o r : r \in rest }

IssueLabelSets == { ls \in SubSeqs(LabelUniverse) : Len(ls) <= MaxIssueLabels }

\* The label of a 'labeled' event.
EventLabels == { PriLabel("Low"), TypeBug, Label("[Status]", << "Escalated" >>) }

\* The answers of the issue template, some other text, and no text.
Impacts == { << "One" >>, << "Some (< 50%)" >>, << "Most (> 50%)" >>, << "All" >>,
             << "Alpha" >>, <<>> }
Workarounds == { << "No and the platform is unusable" >>,
                 << "No but the platform is still usable" >>,
                 << "Yes, difficult to implement" >>,
                 << "Yes, easy to implement" >>,
                 << "_No response_" >>, << "Alpha" >>, <<>> }

\* "### Impact\n\n<impact>\n\n### Available workarounds?\n\n<answer>\n\n"
PrioritySection(impact, answer) ==
    << << H_IMPACT >>, <<>>, impact, <<>>, << H_WORK >>, <<>>, answer, <<>> >>

\* "<header>\n\n<list>\n\n"
ListSection(header, list) == << << header >>, <<>>, list, <<>> >>

\* A body made of sections, ended by a line break.
Body(sections) == Concat(sections) \o << <<>> >>

ListEntries == { << "Alpha" >>, << "Beta" >>, << "Self-hosted" >>, <<>> }
ListSeparators == { << ",", " " >>, << "," >> }

RECURSIVE ListLines(_)
\* The list lines of at most n entries.
ListLines(n) ==
    IF n <= 1 THEN ListEntries
    ELSE LET shorter == ListLines(n - 1)
         IN  shorter \cup { l \o sep \o e :
                             l \in shorter, sep \in ListSeparators, e \in ListEntries }

\* Bodies of the issue template with every pair of answers.
PriorityBodies ==
    { Body(<< ListSection(H_PLUGIN, << "Alpha", ",", " ", "Beta" >>),
              ListSection(H_PLATFORM, << "Simple", ",", " ", "Self-hosted" >>),
              PrioritySection(i, w) >>) : i \in Impacts, w \in Workarounds }

\* Lists with other white space: two blanks after the comma, a blank before
\* it, a blank entry, a blank at the end, two blanks before Self-hosted.
SpacedListLines ==
    { << "Alpha", ",", " ", " ", "Beta" >>,
      << "Alpha", " ", ",", " ", "Beta" >>,
      << "Alpha", ",", " ", " ", ",", " ", "Self-hosted" >>,
      << "Self-hosted", " " >>,
      << "Alpha", ",", " ", " ", "Self-hosted" >>,
      << " " >> }

\* Bodies of the issue template with every list, the same in both sections.
ListBodies ==
    { Body(<< ListSection(H_PLUGIN, l), ListSection(H_PLATFORM, l),
              PrioritySection(<< "All" >>, << "Yes, easy to implement" >>) >>) :
        l \in ListLines(MaxEntries) \cup SpacedListLines }

\* Bodies that are not of the template: free text, a section whose last line
\* has no line break, a header with no empty line after it, a list with a
\* character outside the class, a template with no plugin section.
OtherBodies ==
    { << << "Alpha" >> >>,
      <<>>,
      Concat(<< ListSection(H_PLUGIN, << "Alpha" >>),
                << << H_IMPACT >>, <<>>, << "All" >>, <<>>, << H_WORK >>, <<>>,
                   << "No and the platform is unusable" >> >> >>),
      Body(<< << << H_PLUGIN >>, << "Alpha" >>, <<>> >>,
              << << H_IMPACT >>, << "All" >>, <<>>, << H_WORK >>, <<>>,
                 << "No and the platform is unusable" >>, <<>> >> >>),
      Body(<< ListSection(H_PLUGIN, << "Alpha", " ", "v2.0" >>),
              ListSection(H_PLATFORM, << "Simple", " ", "v2.0" >>) >>),
      Body(<< ListSection(H_PLATFORM, << "Simple" >>),
              PrioritySection(<< "All" >>, << "No and the platform is unusable" >>) >>) }

Bodies == PriorityBodies \cup ListBodies \cup OtherBodies

(***************************************************************************)
(* Board links and the project board.                                      *)
(***************************************************************************)
\* getInput of an input that is not set: the empty string.
NoLink == <<>>

\* https://github.com/orgs/johns-test-org/projects/11/
OrgLink == << << "https:" >>, <<>>, << "github.com" >>, << "orgs" >>,
              << "johns-test-org" >>, << "projects" >>, << "1", "1" >>, <<>> >>
\* github.com/users/bob/projects/7
UserLink == << << "github.com" >>, << "users" >>, << "bob" >>, << "projects" >>,
               << "7" >> >>
\* https://github.com/orgs/johns-test-org
LinkWithoutProject == << << "https:" >>, <<>>, << "github.com" >>, << "orgs" >>,
                         << "johns-test-org" >> >>

\* https://example.com/orgs/acme/projects/11
OtherHostLink == << << "https:" >>, <<>>, << "example.com" >>, << "orgs" >>,
                    << "acme" >>, << "projects" >>, << "1", "1" >> >>

BoardLinks == { NoLink, OrgLink, UserLink, LinkWithoutProject, OtherHostLink }

Digits == { "0", "1", "2", "3", "4", "5", "6", "7", "8", "9" }

DigitValue(d) ==
    CASE d = "0" -> 0 [] d = "1" -> 1 [] d = "2" -> 2 [] d = "3" -> 3
      [] d = "4" -> 4 [] d = "5" -> 5 [] d = "6" -> 6 [] d = "7" -> 7
      [] d = "8" -> 8 [] d = "9" -> 9

RECURSIVE LeadingDigits(_)
\* What \d+ takes of a segment.
LeadingDigits(seg) ==
    IF seg # <<>> /\ Head(seg) \in Digits
    THEN << Head(seg) >> \o LeadingDigits(Tail(seg))
    ELSE <<>>

RECURSIVE ParseInt8(_, _)
\* parseInt( digits, 8 )
ParseInt8(digits, acc) ==
    IF digits = <<>> THEN acc
    ELSE ParseInt8(Tail(digits), 8 * acc + DigitValue(Head(digits)))

RECURSIVE ParseInt10(_, _)
\* parseInt( digits, 10 )
ParseInt10(digits, acc) ==
    IF digits = <<>> THEN acc
    ELSE ParseInt10(Tail(digits), 10 * acc + DigitValue(Head(digits)))

\* The link after the optional "https://" of projectRegex.
WithoutScheme(link) ==
    IF Len(link) >= 2 /\ link[1] = << "https:" >> /\ link[2] = <<>>
    THEN SubSeq(link, 3, Len(link))
    ELSE link

\* projectBoardLink.match( projectRegex )
LinkMatches(link) ==
    LET l == WithoutScheme(link)
    IN  /\ Len(l) >= 5
        /\ l[1] = << "github.com" >>
        /\ l[2] \in { << "orgs" >>, << "users" >> }
        /\ l[3] # <<>>
        /\ l[4] = << "projects" >>
        /\ LeadingDigits(l[5]) # <<>>

\* The object {} .
EmptyObject == [ k \in {} |-> k ]

With(obj, key, val) ==
    [ k \in DOMAIN obj \cup { key } |-> IF k = key THEN val ELSE obj[k] ]

Tiers == { "BLOCKER", "High", "Normal", "Low", "TBD" }

Option(board, name) == [ id |-> << "option", board, name >>, name |-> name ]

\* A board whose Priority field has an option for every tier.
FullBoard ==
    [ id |-> "PVT_full",
      fields |-> << [ id |-> "F_title", name |-> "Title" ],
                    [ id |-> "F_priority", name |-> "Priority",
                      options |-> << Option("full", "BLOCKER"), Option("full", "High"),
                                     Option("full", "Normal"), Option("full", "Low"),
                                     Option("full", "TBD") >> ] >> ]
\* A board whose Priority field has no option Low and no option BLOCKER.
PartialBoard ==
    [ id |-> "PVT_partial",
      fields |-> << [ id |-> "F_priority", name |-> "Priority",
                      options |-> << Option("partial", "High"),
                                     Option("partial", "Normal") >> ] >> ]
\* A board with no field named Priority.
NoPriorityBoard ==
    [ id |-> "PVT_plain",
      fields |-> << [ id |-> "F_title", name |-> "Title" ],
                    [ id |-> "F_status", name |-> "Status",
                      options |-> << Option("plain", "Todo"),
                                     Option("plain", "Done") >> ] >> ]

Boards == { FullBoard, PartialBoard, NoPriorityBoard }

\* What octokit.graphql gives for getProject: it throws ("error"), or the
\* data has no organization ("null"), or it has the organization's project.
GetProjectResponses == { [ kind |-> "error" ], [ kind |-> "null" ] }
                       \cup { [ kind |-> "data", projectV2 |-> b ] : b \in Boards }

\* Array.prototype.find on the fields: the first field named Priority.
FieldsNamed(fields, name) == { k \in 1..Len(fields) : fields[k].name = name }

\* getProjectDetails from the match to its return, given the response of
\* the graph query: the exception it throws ("" when none) and projectInfo.
ProjectDetailsOf(link, response) ==
    LET l == WithoutScheme(link)
        matched == [ ownerType |-> IF l[2] = << "orgs" >> THEN "organization" ELSE "user",
                     ownerName |-> l[3],
                     projectNumber |-> ParseInt10(LeadingDigits(l[5]), 0) ]
    IN  IF response.kind = "error"
        THEN [ thrown |-> "RequestError", info |-> matched ]
        ELSE IF response.kind = "null"
        \* line 324: projectDetails.organization.projectV2 of no organization
        THEN [ thrown |-> "TypeError", info |-> matched ]
        ELSE LET board == response.projectV2
                 withId == With(matched, "projectNodeId", board.id)
                 named == FieldsNamed(board.fields, "Priority")
             IN  [ thrown |-> "",
                   info |-> IF named # {}
                            THEN With(withId, "priority", board.fields[Min(named)])
                            ELSE withId ]

\* What octokit.graphql gives for getProjectNumber: it throws, or the node is
\* null, or the issue has no such project, or it has.
IsInProjectResponses == { "error", "nodeNull", "notInProject", "inProject" }

\* The constant that getItemNodeId returns.
ItemNodeIdConstant == "PVTI_lADOCGvWfc4AUwHEzgI4tDo"

\* The project number of the getProjectNumber query.
QueriedProjectNumber == 11

\* The identifiers in scope at lines 413-436 of triageIssues: its parameters
\* and locals declared so far, and the names of the module.
TriageIssuesScope ==
    { "payload", "octokit", "action", "issue", "label", "repository", "number",
      "body", "state", "node_id", "owner", "name", "full_name", "ownerLogin",
      "projectToken", "projectOctokit", "projectBoardLink", "projectInfo",
      "isInProject", "itemId", "itemNodeId", "priorityFieldId", "options",
      "priorityText", "getInput", "setFailed", "getOctokit", "debug", "getLabels",
      "hasPriorityLabels", "hasEscalatedLabel", "isBug", "findPlugins",
      "findPlatforms", "findPriority", "updateProjectField", "getItemNodeId",
      "getProjectDetails", "triageIssues" }

Declared(identifier) == identifier \in TriageIssuesScope

\* const priorityText = 'Low';
PriorityTextLiteral == "Low"

OptionsNamed(options, name) == { k \in 1..Len(options) : options[k].name = name }

\* Lines 413-434 of triageIssues: the exception they throw, "" when none.
PreparePriorityFieldThrows(info, text) ==
    IF "priority" \notin DOMAIN info
    THEN "TypeError"          \* destructuring priority of undefined
    ELSE IF ~Declared("projectNodeId")
    THEN "ReferenceError"     \* line 424 reads projectNodeId
    ELSE IF "options" \notin DOMAIN info.priority
    THEN "TypeError"          \* options.find of undefined
    ELSE IF OptionsNamed(info.priority.options, text) = {}
    THEN "TypeError"          \* line 428: .id of undefined
    ELSE ""

\* The items and the single-select fields of a board, and the options that
\* are written to them.
ItemIds == { ItemNodeIdConstant, "PVTI_other" }
FieldIds == { "F_priority", "F_status" }
NoOption == << "option", "none", "none" >>
OptionIds == { Option("full", "High").id, Option("full", "Low").id }

\* The project item that the graph holds for an issue (projectItems of the
\* node): each issue is tracked as an item of its own.
BoardItemOf(nodeId) ==
    IF nodeId = "I_1" THEN ItemNodeIdConstant ELSE "PVTI_other"

\* A board none of whose items has a value in any field.
NoValues == [ slot \in ItemIds \X FieldIds |-> NoOption ]

\* No second run, and no video player on the page.
NoRun == [ pc |-> "none" ]
NoHook == [ mounted |-> FALSE ]

(***************************************************************************)
(* A run of triageIssues.                                                  *)
(***************************************************************************)
Call(name, args) == [ name |-> name, args |-> args ]

Issued(name) == { k \in 1..Len(calls) : calls[k].name = name }

\* The payloads: only a 'labeled' event carries a label.
Payloads ==
    { << a, NoName >> : a \in Actions \ { "labeled" } }
    \cup { << "labeled", l >> : l \in EventLabels }

NodeIds == { "I_1", "I_2" }

\* Bodies of the runs that are followed from their start.
RunBodies ==
    { Body(<< ListSection(H_PLUGIN, << "Alpha", ",", " ", "Beta" >>),
              ListSection(H_PLATFORM, << "Simple", ",", " ", "Self-hosted" >>),
              PrioritySection(<< "All" >>, << "No and the platform is unusable" >>) >>),
      Body(<< PrioritySection(<< "One" >>, << "Yes, easy to implement" >>) >>),
      << << "Alpha" >> >> }

NoLocals ==
    /\ projectInfo = EmptyObject
    /\ itemId = Undefined
    /\ itemNodeId = Undefined
    /\ priorityText = Undefined
    /\ priorityLabels = <<>>
    /\ priority = Undefined
    /\ isBugIssue = FALSE
    /\ isEscalated = FALSE

\* The state when triageIssues is called.
Init ==
    /\ projectToken \in { "", "token" }
    /\ projectBoardLink \in BoardLinks
    /\ \E p \in Payloads : action = p[1] /\ eventLabel = p[2]
    /\ body \in RunBodies
    /\ node_id \in NodeIds
    /\ issueLabels \in IssueLabelSets
    /\ pc = "projectToken"
    /\ calls = <<>>
    /\ failure = ""
    /\ thrown = ""
    /\ NoLocals
    /\ otherRun = NoRun
    /\ hook = NoHook
    /\ boardValues = NoValues

Payload == << action, body, node_id, eventLabel, projectToken, projectBoardLink >>
LabelLocals == << priorityLabels, priority, isBugIssue, isEscalated, boardValues,
                 otherRun, hook >>
BoardLocals == << projectInfo, itemId, itemNodeId, priorityText >>

\* A check that takes no input for missing.
MissingNever(input, empty) == FALSE

\* ! input: the input is the empty string.
Missing(input, empty) == input = empty

\* Lines 357-365: the project automation token.
CheckProjectToken ==
    /\ pc = "projectToken"
    /\ IF Missing(projectToken, "")
       THEN /\ failure' = "triage-issues: Input project_automation_token is required but missing. Aborting."
            /\ pc' = "failed"
       ELSE /\ failure' = failure
            /\ pc' = "projectBoard"
    /\ UNCHANGED << Payload, issueLabels, calls, thrown, BoardLocals, LabelLocals >>

\* Lines 367-376: the link of the project board.
CheckProjectBoard ==
    /\ pc = "projectBoard"
    /\ IF Missing(projectBoardLink, NoLink)
       THEN /\ failure' = "triage-issues: No project board link provided. Cannot triage to a board."
            /\ pc' = "failed"
       ELSE /\ failure' = failure
            /\ pc' = "getProjectDetails"
    /\ UNCHANGED << Payload, issueLabels, calls, thrown, BoardLocals, LabelLocals >>

\* Line 378: await getProjectDetails( projectOctokit, projectBoardLink ).
getProjectDetails ==
    /\ pc = "getProjectDetails"
    /\ IF ~LinkMatches(projectBoardLink)
       THEN /\ projectInfo' = EmptyObject
            /\ calls' = calls
            /\ thrown' = thrown
            /\ pc' = "isInProject"
       ELSE \E response \in GetProjectResponses :
              LET r == ProjectDetailsOf(projectBoardLink, response)
              IN  /\ calls' = Append(calls,
                         Call("getProject", [ ownerName |-> r.info.ownerName,
                                              projectNumber |-> r.info.projectNumber ]))
                  /\ thrown' = r.thrown
                  /\ projectInfo' = IF r.thrown = "" THEN r.info ELSE projectInfo
                  /\ pc' = IF r.thrown = "" THEN "isInProject" ELSE "thrown"
    /\ UNCHANGED << Payload, issueLabels, failure, itemId, itemNodeId, priorityText,
                    LabelLocals >>

\* Lines 380-405: the getProjectNumber query and itemId.
isInProject ==
    /\ pc = "isInProject"
    /\ \E response \in IsInProjectResponses :
         /\ calls' = Append(calls, Call("getProjectNumber",
                        [ id |-> node_id, number |-> QueriedProjectNumber ]))
         /\ thrown' = CASE response = "error" -> "RequestError"
                        \* isInProject.node?.projectV2.id of a null projectV2
                        [] response = "notInProject" -> "TypeError"
                        [] OTHER -> ""
         /\ itemId' = IF response = "inProject" THEN "PVT_queried" ELSE itemId
         /\ pc' = IF response \in { "nodeNull", "inProject" }
                  THEN "getItemNodeId" ELSE "thrown"
    /\ UNCHANGED << Payload, issueLabels, failure, projectInfo, itemNodeId, priorityText,
                    LabelLocals >>

\* Line 407: await getItemNodeId( projectOctokit, node_id ).
getItemNodeId ==
    /\ pc = "getItemNodeId"
    /\ \E ok \in BOOLEAN :
         /\ calls' = Append(calls, Call("getIssueProjectDetails", [ id |-> node_id ]))
         /\ thrown' = IF ok THEN "" ELSE "RequestError"
         /\ itemNodeId' = IF ok THEN ItemNodeIdConstant ELSE itemNodeId
         /\ pc' = IF ok THEN "priorityField" ELSE "thrown"
    /\ UNCHANGED << Payload, issueLabels, failure, projectInfo, itemId, priorityText,
                    LabelLocals >>

\* Lines 409-434: the priority field, priorityText and the option to write.
PreparePriorityField ==
    /\ pc = "priorityField"
    /\ priorityText' = IF "priority" \in DOMAIN projectInfo
                       THEN PriorityTextLiteral ELSE priorityText
    /\ thrown' = PreparePriorityFieldThrows(projectInfo, PriorityTextLiteral)
    /\ pc' = IF thrown' = "" THEN "updateProjectField" ELSE "thrown"
    /\ UNCHANGED << Payload, issueLabels, calls, failure, projectInfo, itemId,
                    itemNodeId, LabelLocals >>

Next ==
    \/ CheckProjectToken
    \/ CheckProjectBoard
    \/ getProjectDetails
    \/ isInProject
    \/ getItemNodeId
    \/ PreparePriorityField

\* The runs of triageIssues from its call.
Spec == Init /\ [][Next]_vars

(***************************************************************************)
(* The label phase of triageIssues, lines 447-515.                         *)
(***************************************************************************)
RunInputs == << Payload, BoardLocals, failure >>

\* Lines 447-468: priorityLabels and priority.
HasPriorityLabels ==
    /\ pc = "hasPriorityLabels"
    /\ \E ok \in BOOLEAN :
         /\ calls' = Append(calls, Call("listLabels", [ by |-> "hasPriorityLabels" ]))
         /\ thrown' = IF ok THEN "" ELSE "RequestError"
         /\ priorityLabels' = IF ok
                              THEN hasPriorityLabels(getLabels(issueLabels), action, eventLabel)
                              ELSE priorityLabels
         /\ priority' = IF ok THEN findPriority(body) ELSE priority
         /\ pc' = IF ok THEN "isBug" ELSE "thrown"
    /\ UNCHANGED << RunInputs, issueLabels, isBugIssue, isEscalated, boardValues,
                    otherRun, hook >>

\* The condition of line 473 taking 'labeled' too.
IsNewIssueOrLabeled(act) == act = "opened" \/ act = "reopened" \/ act = "labeled"

\* Line 473: action === 'opened' || action === 'reopened'
IsNewIssue(act) == act = "opened" \/ act = "reopened"

\* Lines 470-473: isBugIssue, and whether labels are to be added.
IsBug ==
    /\ pc = "isBug"
    /\ \E ok \in BOOLEAN :
         /\ calls' = Append(calls, Call("listLabels", [ by |-> "isBug" ]))
         /\ thrown' = IF ok THEN "" ELSE "RequestError"
         /\ isBugIssue' = IF ok THEN isBug(getLabels(issueLabels), action, eventLabel)
                          ELSE isBugIssue
         /\ pc' = IF ~ok THEN "thrown"
                  ELSE IF IsNewIssue(action) THEN "pluginLabels" ELSE "done"
    /\ UNCHANGED << RunInputs, issueLabels, priorityLabels, priority, isEscalated,
                    boardValues, otherRun, hook >>

\* An addLabels call of the run with these labels, and where the run goes.
AddLabels(labels, next) ==
    \E ok \in BOOLEAN :
       /\ calls' = Append(calls, Call("addLabels", [ labels |-> labels ]))
       /\ issueLabels' = IF ok THEN AddedTo(issueLabels, labels) ELSE issueLabels
       /\ thrown' = IF ok THEN "" ELSE "RequestError"
       /\ pc' = IF ok THEN next ELSE "thrown"

Skip(next) == /\ pc' = next
              /\ UNCHANGED << calls, issueLabels, thrown >>

\* Lines 474-487: the plugin labels.
AddPluginLabels ==
    /\ pc = "pluginLabels"
    /\ LET impactedPlugins == findPlugins(body)
       IN  IF Len(impactedPlugins) > 0
           THEN AddLabels(pluginLabels(impactedPlugins), "platformLabels")
           ELSE Skip("platformLabels")
    /\ UNCHANGED << RunInputs, LabelLocals >>

\* Lines 489-502: the platform labels.
AddPlatformLabels ==
    /\ pc = "platformLabels"
    /\ LET impactedPlatforms == findPlatforms(body)
       IN  IF Len(impactedPlatforms) > 0
           THEN AddLabels(platformLabels(impactedPlatforms), "priorityLabel")
           ELSE Skip("priorityLabel")
    /\ UNCHANGED << RunInputs, LabelLocals >>

\* The condition of line 505 without its first half.
NeedsPriorityLabelOfAnyBug(labels, bug) == bug

\* Line 505: priorityLabels.length === 0 && isBugIssue
NeedsPriorityLabel(labels, bug) == Len(labels) = 0 /\ bug

\* Lines 504-515: the priority label.
AddPriorityLabel ==
    /\ pc = "priorityLabel"
    /\ IF NeedsPriorityLabel(priorityLabels, isBugIssue)
       THEN AddLabels(<< PriLabel(priority) >>, "done")
       ELSE Skip("done")
    /\ UNCHANGED << RunInputs, LabelLocals >>

\* triageIssues at line 447, with any payload and any labels on the issue.
LabelPhaseInit ==
    /\ projectToken = "token"
    /\ projectBoardLink = OrgLink
    /\ \E p \in Payloads : action = p[1] /\ eventLabel = p[2]
    /\ body \in Bodies
    /\ node_id = "I_1"
    /\ issueLabels \in IssueLabelSets
    /\ pc = "hasPriorityLabels"
    /\ calls = <<>>
    /\ failure = ""
    /\ thrown = ""
    /\ NoLocals
    /\ otherRun = NoRun
    /\ hook = NoHook
    /\ boardValues = NoValues

LabelPhaseNext ==
    \/ HasPriorityLabels
    \/ IsBug
    \/ AddPluginLabels
    \/ AddPlatformLabels
    \/ AddPriorityLabel

\* The label phase on its own: lines 447-515 from their first line.
LabelPhaseSpec == LabelPhaseInit /\ [][LabelPhaseNext]_vars

(***************************************************************************)
(* updateProjectField, lines 174-202, called any number of times.          *)
(***************************************************************************)
MaxUpdates == 3

\* The input of lines 187-195 with a clientMutationId that counts the calls.
updateProjectFieldInputNumbered(fieldId, itemNode, projectId, optionId) ==
    [ fieldId |-> fieldId,
      itemId |-> itemNode,
      projectId |-> projectId,
      clientMutationId |-> Len(calls),
      value |-> [ singleSelectOptionId |-> optionId ] ]

\* Lines 187-195: the input of the mutation.
updateProjectFieldInput(fieldId, itemNode, projectId, optionId) ==
    [ fieldId |-> fieldId,
      itemId |-> itemNode,
      projectId |-> projectId,
      value |-> [ singleSelectOptionId |-> optionId ] ]

\* updateProjectV2ItemFieldValue on the board: the item holds the option in
\* the field.
SetFieldValue(board, input) ==
    [ board EXCEPT ![<< input.itemId, input.fieldId >>] =
                        input.value.singleSelectOptionId ]

\* Lines 174-202: one call of updateProjectField.
updateProjectField ==
    /\ pc = "updateProjectField"
    /\ Len(calls) < MaxUpdates
    /\ \E fieldId \in FieldIds, itemNode \in ItemIds, optionId \in OptionIds,
          ok \in BOOLEAN :
         LET input == updateProjectFieldInput(fieldId, itemNode, FullBoard.id, optionId)
         IN  /\ calls' = Append(calls, Call("updateProjectV2ItemFieldValue",
                            [ given |-> << fieldId, itemNode, FullBoard.id, optionId >>,
                              input |-> input ]))
             /\ boardValues' = IF ok THEN SetFieldValue(boardValues, input)
                               ELSE boardValues
             /\ thrown' = IF ok THEN "" ELSE "RequestError"
    /\ UNCHANGED << Payload, issueLabels, pc, failure, BoardLocals, priorityLabels,
                    priority, isBugIssue, isEscalated, otherRun, hook >>

\* A board on which an item may already hold an option.
UpdateFieldInit ==
    /\ projectToken = "token"
    /\ projectBoardLink = OrgLink
    /\ action = "opened"
    /\ eventLabel = NoName
    /\ body = << << "Alpha" >> >>
    /\ node_id = "I_1"
    /\ issueLabels = <<>>
    /\ pc = "updateProjectField"
    /\ calls = <<>>
    /\ failure = ""
    /\ thrown = ""
    /\ NoLocals
    /\ otherRun = NoRun
    /\ hook = NoHook
    /\ boardValues \in { NoValues,
                         [ NoValues EXCEPT ![<< ItemNodeIdConstant, "F_priority" >>] =
                                               Option("full", "High").id ] }

UpdateFieldNext == updateProjectField

\* updateProjectField on its own.
UpdateFieldSpec == UpdateFieldInit /\ [][UpdateFieldNext]_vars

(***************************************************************************)
(* hasPriorityLabels, hasEscalatedLabel and isBug, lines 21-88, called one *)
(* after the other with any action and any event label.                    *)
(***************************************************************************)
EscalatedToProduct == Label("[Status]", << "Escalated", " ", "to", " ", "Product" >>)

\* The labels an issue may carry when the checks are called.
CheckedLabelUniverse == LabelUniverse \o << EscalatedToKitkat, EscalatedToProduct >>
CheckedLabelSets == { ls \in SubSeqs(CheckedLabelUniverse) : Len(ls) <= MaxIssueLabels }

\* The eventLabel argument: the name of a label, or none.
CheckedEventLabels ==
    EventLabels \cup { NoName, EscalatedToKitkat, EscalatedToProduct,
                       Label("[Type]", << "Enhancement" >>) }

\* A check: it lists the labels, and keeps its result in a variable.
CheckLabels(by, next) ==
    \E ok \in BOOLEAN :
       /\ calls' = Append(calls, Call("listLabels", [ by |-> by ]))
       /\ thrown' = IF ok THEN "" ELSE "RequestError"
       /\ pc' = IF ok THEN next ELSE "thrown"
       /\ priorityLabels' =
             IF ok /\ by = "hasPriorityLabels"
             THEN hasPriorityLabels(getLabels(issueLabels), action, eventLabel)
             ELSE priorityLabels
       /\ isEscalated' =
             IF ok /\ by = "hasEscalatedLabel"
             THEN hasEscalatedLabel(getLabels(issueLabels), action, eventLabel)
             ELSE isEscalated
       /\ isBugIssue' =
             IF ok /\ by = "isBug"
             THEN isBug(getLabels(issueLabels), action, eventLabel)
             ELSE isBugIssue
       /\ UNCHANGED << RunInputs, issueLabels, priority, boardValues, otherRun, hook >>

\* Lines 21-28.
CheckPriorityLabels ==
    /\ pc = "hasPriorityLabels"
    /\ CheckLabels("hasPriorityLabels", "hasEscalatedLabel")

\* Lines 43-62.
CheckEscalatedLabel ==
    /\ pc = "hasEscalatedLabel"
    /\ CheckLabels("hasEscalatedLabel", "isBug")

\* Lines 77-88.
CheckBug ==
    /\ pc = "isBug"
    /\ CheckLabels("isBug", "done")

LabelChecksInit ==
    /\ projectToken = "token"
    /\ projectBoardLink = OrgLink
    /\ action \in Actions
    /\ eventLabel \in CheckedEventLabels
    /\ body = << << "Alpha" >> >>
    /\ node_id = "I_1"
    /\ issueLabels \in CheckedLabelSets
    /\ pc = "hasPriorityLabels"
    /\ calls = <<>>
    /\ failure = ""
    /\ thrown = ""
    /\ NoLocals
    /\ otherRun = NoRun
    /\ hook = NoHook
    /\ boardValues = NoValues

LabelChecksNext ==
    \/ CheckPriorityLabels
    \/ CheckEscalatedLabel
    \/ CheckBug

\* The three label-state checks on their own.
LabelChecksSpec == LabelChecksInit /\ [][LabelChecksNext]_vars

(***************************************************************************)
(* Two runs of the label phase for the same issue, their remote calls in   *)
(* any order: the workflow groups runs for issue events by run id, so it   *)
(* neither cancels nor queues them.                                        *)
(***************************************************************************)
FirstRun == << Payload, BoardLocals, failure, pc, thrown, priorityLabels, priority,
               isBugIssue, isEscalated, boardValues, hook >>

\* Lines 447-468 in the second run.
OtherHasPriorityLabels ==
    /\ otherRun.pc = "hasPriorityLabels"
    /\ \E ok \in BOOLEAN :
         /\ calls' = Append(calls, Call("listLabels", [ by |-> "hasPriorityLabels" ]))
         /\ otherRun' =
               IF ok
               THEN [ otherRun EXCEPT
                        !.priorityLabels = hasPriorityLabels(getLabels(issueLabels),
                                               otherRun.action, otherRun.eventLabel),
                        !.priority = findPriority(otherRun.body),
                        !.pc = "isBug" ]
               ELSE [ otherRun EXCEPT !.thrown = "RequestError", !.pc = "thrown" ]
    /\ UNCHANGED << FirstRun, issueLabels >>

\* Lines 470-473 in the second run.
OtherIsBug ==
    /\ otherRun.pc = "isBug"
    /\ \E ok \in BOOLEAN :
         /\ calls' = Append(calls, Call("listLabels", [ by |-> "isBug" ]))
         /\ otherRun' =
               IF ok
               THEN [ otherRun EXCEPT
                        !.isBugIssue = isBug(getLabels(issueLabels), otherRun.action,
                                             otherRun.eventLabel),
                        !.pc = IF IsNewIssue(otherRun.action) THEN "pluginLabels"
                               ELSE "done" ]
               ELSE [ otherRun EXCEPT !.thrown = "RequestError", !.pc = "thrown" ]
    /\ UNCHANGED << FirstRun, issueLabels >>

\* An addLabels call of the second run.
OtherAddLabels(labels, next) ==
    \E ok \in BOOLEAN :
       /\ calls' = Append(calls, Call("addLabels", [ labels |-> labels ]))
       /\ issueLabels' = IF ok THEN AddedTo(issueLabels, labels) ELSE issueLabels
       /\ otherRun' = IF ok THEN [ otherRun EXCEPT !.pc = next ]
                      ELSE [ otherRun EXCEPT !.thrown = "RequestError", !.pc = "thrown" ]

OtherSkip(next) ==
    /\ otherRun' = [ otherRun EXCEPT !.pc = next ]
    /\ UNCHANGED << calls, issueLabels >>

\* Lines 474-487 in the second run.
OtherAddPluginLabels ==
    /\ otherRun.pc = "pluginLabels"
    /\ LET impactedPlugins == findPlugins(otherRun.body)
       IN  IF Len(impactedPlugins) > 0
           THEN OtherAddLabels(pluginLabels(impactedPlugins), "platformLabels")
           ELSE OtherSkip("platformLabels")
    /\ UNCHANGED FirstRun

\* Lines 489-502 in the second run.
OtherAddPlatformLabels ==
    /\ otherRun.pc = "platformLabels"
    /\ LET impactedPlatforms == findPlatforms(otherRun.body)
       IN  IF Len(impactedPlatforms) > 0
           THEN OtherAddLabels(platformLabels(impactedPlatforms), "priorityLabel")
           ELSE OtherSkip("priorityLabel")
    /\ UNCHANGED FirstRun

\* Lines 504-515 in the second run.
OtherAddPriorityLabel ==
    /\ otherRun.pc = "priorityLabel"
    /\ IF NeedsPriorityLabel(otherRun.priorityLabels, otherRun.isBugIssue)
       THEN OtherAddLabels(<< PriLabel(otherRun.priority) >>, "done")
       ELSE OtherSkip("done")
    /\ UNCHANGED FirstRun

\* The labels of an issue that two runs are started for: none, a bug, a bug
\* with a priority label.
TwoRunsLabelSets == { <<>>, << TypeBug >>, << PriLabel("High"), TypeBug >> }

\* Both runs at line 447, each with the action and the body of its event.
TwoRunsInit ==
    /\ projectToken = "token"
    /\ projectBoardLink = OrgLink
    /\ action \in { "opened", "reopened", "edited" }
    /\ eventLabel = NoName
    /\ body \in RunBodies
    /\ node_id = "I_1"
    /\ issueLabels \in TwoRunsLabelSets
    /\ pc = "hasPriorityLabels"
    /\ calls = <<>>
    /\ failure = ""
    /\ thrown = ""
    /\ NoLocals
    /\ boardValues = NoValues
    /\ hook = NoHook
    /\ \E a \in { "opened", "reopened" }, b \in RunBodies :
          otherRun = [ action |-> a, eventLabel |-> NoName, body |-> b,
                       pc |-> "hasPriorityLabels", thrown |-> "",
                       priorityLabels |-> <<>>, priority |-> Undefined,
                       isBugIssue |-> FALSE ]

TwoRunsNext ==
    \/ HasPriorityLabels
    \/ IsBug
    \/ AddPluginLabels
    \/ AddPlatformLabels
    \/ AddPriorityLabel
    \/ OtherHasPriorityLabels
    \/ OtherIsBug
    \/ OtherAddPluginLabels
    \/ OtherAddPlatformLabels
    \/ OtherAddPriorityLabel

TwoRunsSpec == TwoRunsInit /\ [][TwoRunsNext]_vars

(***************************************************************************)
(* The useVideoPlayer hook (videopress, hooks/use-video-player/index.ts):  *)
(* one mounted instance, the messages of the player and the mouse events   *)
(* of the wrapper in any order.                                            *)
(***************************************************************************)
MaxEvents == 4

\* event.data of the messages that reach the iframe window: the loading
\* states, playing, another event, and a message with no data.
PlayerMessages ==
    { [ event |-> "videopress_loading_state", state |-> "loaded" ],
      [ event |-> "videopress_loading_state", state |-> "loading" ],
      [ event |-> "videopress_playing", state |-> Undefined ],
      [ event |-> "videopress_timeupdate", state |-> Undefined ],
      [ event |-> Undefined, state |-> Undefined ] }

\* The option atTime in milliseconds: not given, or given.
AtTimes == { <<>>, << 5000 >> }

\* A mouse event carries no message.
NoData == [ event |-> Undefined, state |-> Undefined ]

\* The value of the hook with a message or an event added to what it has
\* handled, and with messages added to what it has posted.
Handled(h, what) == [ h EXCEPT !.handled = Append(h.handled, what) ]
Posted(h, by, messages) ==
    [ h EXCEPT !.posted =
         h.posted \o [ k \in 1..Len(messages) |->
                         [ by |-> by, at |-> Len(h.handled), message |-> messages[k] ] ] ]

\* Lines 73-83: what the handler posts to the source at the first play.
\* atTime is a whole number of seconds here, so atTime / 1000 is exact.
FirstPlayMessages(atTime) ==
    << [ event |-> "videopress_action_pause" ] >>
    \o ( IF atTime # <<>>
         THEN << [ event |-> "videopress_action_set_currenttime",
                   currentTime |-> atTime[1] \div 1000 ] >>
         ELSE <<>> )

NotTheHook == << Payload, issueLabels, pc, calls, failure, thrown, BoardLocals,
                 priorityLabels, priority, isBugIssue, isEscalated, boardValues,
                 otherRun >>

\* Lines 63-66: playerState.current after the first test of the handler.
AfterLoadingState(state, m) ==
    IF m.event = "videopress_loading_state" /\ m.state = "loaded"
    THEN "loaded" ELSE state

\* Lines 58-89: listenEventsHandler on a message.
listenEventsHandler ==
    /\ hook.mounted
    /\ hook.listening
    /\ Len(hook.handled) < MaxEvents
    /\ \E m \in PlayerMessages :
         LET h == Handled(hook, [ kind |-> "message", data |-> m ])
             state == AfterLoadingState(hook.playerState, m)
         IN  IF m.event = "videopress_playing" /\ state = "loaded"
             THEN hook' = [ Posted(h, "listenEventsHandler",
                                   FirstPlayMessages(hook.atTime))
                              EXCEPT !.playerIsReady = TRUE, !.playerState = "ready" ]
             ELSE hook' = [ h EXCEPT !.playerState = state ]
    /\ UNCHANGED NotTheHook

\* The render that follows setPlayerIsReady: playVideo and stopVideo are made
\* anew with the new playerIsReady (lines 110-126) and attached (129-142).
Rerender ==
    /\ hook.mounted
    /\ hook.renderedIsReady # hook.playerIsReady
    /\ hook' = [ hook EXCEPT !.renderedIsReady = hook.playerIsReady ]
    /\ UNCHANGED NotTheHook

\* Lines 92-108: a render with isRequestingPreview changed; the effect takes
\* the listener off and puts it on again when no preview is being requested
\* and the iframe is there.
SetRequestingPreview ==
    /\ hook.mounted
    /\ hook' = [ hook EXCEPT
                   !.isRequestingPreview = ~hook.isRequestingPreview,
                   !.listening = hook.isRequestingPreview /\ hook.iframe,
                   !.renderedIsReady = hook.playerIsReady ]
    /\ UNCHANGED NotTheHook

\* The sandbox iframe comes to be in the wrapper (getIframeWindowFromRef,
\* lines 21-28, gives a window from now on); no effect runs for it.
IframeRendered ==
    /\ hook.mounted
    /\ ~hook.iframe
    /\ hook' = [ hook EXCEPT !.iframe = TRUE ]
    /\ UNCHANGED NotTheHook

\* A callback of the hover preview, attached while the wrapper is there and
\* previewOnHover is set (lines 129-142): what it posts to the iframe window.
HoverCallback(kind, by, message) ==
    /\ Len(hook.handled) < MaxEvents
    /\ LET h == Handled(hook, [ kind |-> kind, data |-> NoData ])
       IN  hook' = IF ~hook.iframe \/ ~hook.renderedIsReady
                   THEN h
                   ELSE Posted(h, by, << message >>)
    /\ UNCHANGED NotTheHook

\* Lines 110-117, on mouseenter.
playVideo ==
    /\ hook.mounted
    /\ hook.previewOnHover
    /\ HoverCallback("mouseenter", "playVideo", [ event |-> "videopress_action_play" ])

\* Lines 119-126, on mouseleave.
stopVideo ==
    /\ hook.mounted
    /\ hook.previewOnHover
    /\ HoverCallback("mouseleave", "stopVideo", [ event |-> "videopress_action_pause" ])

\* The hook after its first render and its effects.
VideoPlayerInit ==
    /\ projectToken = "token"
    /\ projectBoardLink = OrgLink
    /\ action = "opened"
    /\ eventLabel = NoName
    /\ body = << << "Alpha" >> >>
    /\ node_id = "I_1"
    /\ issueLabels = <<>>
    /\ pc = "done"
    /\ calls = <<>>
    /\ failure = ""
    /\ thrown = ""
    /\ NoLocals
    /\ boardValues = NoValues
    /\ otherRun = NoRun
    /\ \E atTime \in AtTimes, previewOnHover \in BOOLEAN, isRequestingPreview \in BOOLEAN,
          iframe \in BOOLEAN :
          hook = [ mounted |-> TRUE,
                   atTime |-> atTime,
                   previewOnHover |-> previewOnHover,
                   isRequestingPreview |-> isRequestingPreview,
                   iframe |-> iframe,
                   listening |-> ~isRequestingPreview /\ iframe,
                   playerState |-> "not-rendered",
                   playerIsReady |-> FALSE,
                   renderedIsReady |-> FALSE,
                   handled |-> <<>>,
                   posted |-> <<>> ]

VideoPlayerNext ==
    \/ listenEventsHandler
    \/ Rerender
    \/ SetRequestingPreview
    \/ IframeRendered
    \/ playVideo
    \/ stopVideo

VideoPlayerSpec == VideoPlayerInit /\ [][VideoPlayerNext]_vars

(***************************************************************************)
(* What the claims speak of.                                               *)
(***************************************************************************)
\* The run has ended: by setFailed and return, by an exception, or normally.
Ended == pc \in { "failed", "thrown", "done" }

\* The run is for 'opened' or 'reopened'.
NewIssueAction == action \in { "opened", "reopened" }

ConfigurationPresent == projectToken # "" /\ projectBoardLink # NoLink

HasPriLabel(labels) == \E k \in 1..Len(labels) : labels[k][1] = "[Pri]"

\* The addLabels calls issued that carry a label starting with [Pri].
PriorityCalls == { k \in Issued("addLabels") : HasPriLabel(calls[k].args.labels) }

AddLabelsIssuedWith(labels) ==
    \E k \in Issued("addLabels") : calls[k].args.labels = labels

\* The three graph queries of the board chain have succeeded.
BoardChainSucceeded ==
    /\ thrown # "RequestError"
    /\ itemId # Undefined
    /\ itemNodeId # Undefined

\* The run has listed the labels and issued the addLabels calls that the
\* body and the labels on the issue call for.
LabelingDone ==
    /\ Issued("listLabels") # {}
    /\ NewIssueAction =>
         /\ findPlugins(body) # <<>> =>
               AddLabelsIssuedWith(pluginLabels(findPlugins(body)))
         /\ findPlatforms(body) # <<>> =>
               AddLabelsIssuedWith(platformLabels(findPlatforms(body)))
         /\ (TypeBug \in Range(issueLabels) /\ ~HasPriLabel(issueLabels)) =>
               AddLabelsIssuedWith(<< PriLabel(findPriority(body)) >>)

\* The decision table of the priority policy, first matching row first.
\* A row: the kind of workaround answer, the impacts it takes (any when
\* anyImpact), and the tier.
WorkaroundKind(answer) ==
    CASE answer = << "No and the platform is unusable" >> -> "none-unusable"
      [] answer = << "No but the platform is still usable" >> -> "none-usable"
      [] answer = << "Yes, difficult to implement" >> -> "yes-difficult"
      [] answer = <<>> \/ answer = << "_No response_" >> -> "unspecified"
      [] OTHER -> "other-answer"

DecisionTable ==
    << [ kind |-> "none-unusable", impacts |-> { << "One" >> }, anyImpact |-> FALSE,
         tier |-> "High" ],
       [ kind |-> "none-unusable", impacts |-> {}, anyImpact |-> TRUE,
         tier |-> "BLOCKER" ],
       [ kind |-> "none-usable", impacts |-> {}, anyImpact |-> TRUE, tier |-> "High" ],
       [ kind |-> "yes-difficult", impacts |-> { << "All" >> }, anyImpact |-> FALSE,
         tier |-> "High" ],
       [ kind |-> "yes-difficult", impacts |-> {}, anyImpact |-> TRUE,
         tier |-> "Normal" ],
       [ kind |-> "other-answer", impacts |-> { << "All" >>, << "Most (> 50%)" >> },
         anyImpact |-> FALSE, tier |-> "Normal" ],
       [ kind |-> "other-answer", impacts |-> {}, anyImpact |-> TRUE, tier |-> "Low" ],
       [ kind |-> "unspecified", impacts |-> {}, anyImpact |-> TRUE, tier |-> "TBD" ] >>

RowMatches(row, impact, answer) ==
    /\ row.kind = WorkaroundKind(answer)
    /\ row.anyImpact \/ impact \in row.impacts

TableTier(impact, answer) ==
    DecisionTable[Min({ k \in 1..Len(DecisionTable) :
                          RowMatches(DecisionTable[k], impact, answer) })].tier

\* The places of the body where the Impact / Available workarounds section
\* stands, its answers being lines k + 2 and k + 6.
SectionPlaces(b) ==
    { k \in 1..Len(b) :
         /\ k + 8 <= Len(b)
         /\ b[k] = << H_IMPACT >>
         /\ SubSeq(b, k, k + 7) = PrioritySection(b[k + 2], b[k + 6]) }

\* The body holds the section with these two answers.
ContainsSection(b, impact, answer) ==
    \E k \in SectionPlaces(b) : b[k + 2] = impact /\ b[k + 6] = answer

(***************************************************************************)
(* The claims.                                                             *)
(***************************************************************************)

\* C1: for every body that holds the Impact / Available workarounds section,
\* whatever the two answers, findPriority returns the tier of the first
\* matching row of the decision table; it always returns a tier.
C1_FindPriorityFollowsTable ==
    priority # Undefined =>
       /\ priority \in Tiers
       /\ \A k \in SectionPlaces(body) :
             priority = TableTier(body[k + 2], body[k + 6])

\* The scenario of the inversion: everyone impacted, no workaround, unusable.
C1_Witness ==
    /\ pc = "done"
    /\ ContainsSection(body, << "All" >>, << "No and the platform is unusable" >>)
    /\ priority = "BLOCKER"

\* C2: a step of a run for 'opened' or 'reopened' on an issue that carries a
\* [Pri] label issues no addLabels call with a [Pri] label.
C2_NoSecondPriorityLabel ==
    [][ (NewIssueAction /\ HasPriLabel(issueLabels)) =>
          \A k \in (Len(calls) + 1)..Len(calls') :
             calls'[k].name = "addLabels" => ~HasPriLabel(calls'[k].args.labels) ]_vars

\* A bug that has a priority label, after a whole label phase that added
\* other labels.
C2_Witness ==
    /\ pc = "done"
    /\ action = "opened"
    /\ TypeBug \in Range(issueLabels)
    /\ PriLabel("High") \in Range(issueLabels)
    /\ Issued("addLabels") # {}
    /\ PriorityCalls = {}

\* C3: in a run for 'opened' or 'reopened' with the configuration present,
\* a failure of a step of the board chain does not keep the run from listing
\* the labels and issuing the addLabels calls.
C3_BoardFailureKeepsLabeling ==
    ( /\ Ended
      /\ NewIssueAction
      /\ ConfigurationPresent
      /\ thrown = "RequestError"
      /\ calls # <<>>
      /\ calls[Len(calls)].name \in { "getProject", "getProjectNumber",
                                      "getIssueProjectDetails",
                                      "updateProjectV2ItemFieldValue" } )
    => LabelingDone

\* C4: with the project automation token or the board link absent, the run
\* issues no remote call and ends with a reported failure.
C4_MissingConfigurationAborts ==
    (projectToken = "" \/ projectBoardLink = NoLink) =>
       /\ calls = <<>>
       /\ thrown = ""
       /\ pc \in { "projectToken", "projectBoard", "failed" }
       /\ pc = "failed" => failure # ""

\* The token is there, the board link is not: the run has failed.
C4_Witness ==
    /\ pc = "failed"
    /\ projectToken = "token"
    /\ projectBoardLink = NoLink
    /\ action = "opened"
    /\ failure # ""

\* C5: the option the run takes for the Priority field of the board is the
\* one named after the tier that the decision table gives for the body.
C5_OptionIsComputedTier ==
    priorityText # Undefined => priorityText = findPriority(body)

\* C6: a run for 'opened' or 'reopened' with the configuration present, a
\* valid board link, a Priority field with an option for the tier and every
\* remote call succeeding ends normally, the labels added.
C6_FullRunEndsNormally ==
    ( /\ Ended
      /\ NewIssueAction
      /\ ConfigurationPresent
      /\ LinkMatches(projectBoardLink)
      /\ BoardChainSucceeded
      /\ "priority" \in DOMAIN projectInfo
      /\ OptionsNamed(projectInfo.priority.options, findPriority(body)) # {} )
    => (pc = "done" /\ LabelingDone)

\* C7: an addLabels call with a [Pri] label is issued only for 'opened' or
\* 'reopened', on a bug, with no priority label found; the call carries the
\* one label [Pri] <tier of the body>.
C7_PriorityLabelOnlyForNewBugs ==
    \A k \in PriorityCalls :
       /\ NewIssueAction
       /\ TypeBug \in Range(issueLabels)
       /\ priorityLabels = <<>>
       /\ \A l \in Range(issueLabels) : IsPriLabel(l) => l = PriLabel(findPriority(body))
       /\ calls[k].args.labels = << PriLabel(findPriority(body)) >>

\* A new bug with no priority label got [Pri] BLOCKER.
C7_Witness ==
    /\ pc = "done"
    /\ action = "reopened"
    /\ PriorityCalls # {}
    /\ PriLabel("BLOCKER") \in Range(issueLabels)

\* C8: a step of a run for an action other than 'opened' and 'reopened'
\* issues no addLabels call and leaves the labels of the issue as they are.
C8_OtherActionsAddNoLabels ==
    [][ ~NewIssueAction =>
          /\ issueLabels' = issueLabels
          /\ \A k \in (Len(calls) + 1)..Len(calls') : calls'[k].name # "addLabels" ]_vars

\* A 'labeled' run that made an issue with plugins in its body a bug with no
\* priority label has ended with its two listings and nothing else.
C8_Witness ==
    /\ pc = "done"
    /\ action = "labeled"
    /\ eventLabel = TypeBug
    /\ isBugIssue
    /\ priorityLabels = <<>>
    /\ findPlugins(body) # <<>>
    /\ Len(calls) = 2
    /\ Issued("addLabels") = {}

\* C9: with a board link that does not match the pattern, the run issues no
\* board field mutation and still lists the labels and adds those called for.
C9_InvalidLinkKeepsLabeling ==
    ( /\ Ended
      /\ projectToken # ""
      /\ projectBoardLink # NoLink
      /\ ~LinkMatches(projectBoardLink)
      /\ BoardChainSucceeded )
    => ( /\ Issued("updateProjectV2ItemFieldValue") = {}
         /\ LabelingDone )

\* C10: when the Priority field fetched in the run has no option named after
\* the tier, the run issues no field mutation and goes on to the labels.
C10_MissingOptionSkipsWrite ==
    ( /\ Ended
      /\ ConfigurationPresent
      /\ BoardChainSucceeded
      /\ "priority" \in DOMAIN projectInfo
      /\ OptionsNamed(projectInfo.priority.options, findPriority(body)) = {} )
    => ( /\ Issued("updateProjectV2ItemFieldValue") = {}
         /\ LabelingDone )

\* The schema fetched by the run has no field named Priority.
SchemaWithoutPriority ==
    /\ "projectNodeId" \in DOMAIN projectInfo
    /\ projectInfo.projectNodeId = NoPriorityBoard.id

\* C11: when the schema fetched by the run has no field named Priority, the
\* board info carries no priority field, the run issues no field mutation,
\* and it does not end by an exception: it goes on to the labels.
C11_NoPriorityFieldIsNotFatal ==
    ( /\ Ended
      /\ ConfigurationPresent
      /\ BoardChainSucceeded
      /\ SchemaWithoutPriority )
    => ( /\ "priority" \notin DOMAIN projectInfo
         /\ Issued("updateProjectV2ItemFieldValue") = {}
         /\ thrown = ""
         /\ LabelingDone )

\* The getProjectNumber query of the run was answered, and the answer holds
\* no project item for the issue.
LookupFoundNoItem ==
    /\ Issued("getProjectNumber") # {}
    /\ itemId = Undefined
    /\ ~( /\ calls[Len(calls)].name = "getProjectNumber"
          /\ thrown = "RequestError" )

\* C12: when the lookup finds no item for the issue on the board, the run
\* issues no field mutation and the lookup's answer does not end the run by
\* an exception.
C12_UnlinkedIssueIsNotAFailure ==
    ( /\ pc # "isInProject"
      /\ ConfigurationPresent
      /\ LookupFoundNoItem
      /\ calls[Len(calls)].name = "getProjectNumber" )
    => ( /\ Issued("updateProjectV2ItemFieldValue") = {}
         /\ thrown = ""
         /\ pc # "thrown" )

\* The step is a call of updateProjectField with the arguments of the call
\* before it, and both calls went through.
SameUpdateAgain ==
    /\ calls # <<>>
    /\ Len(calls') = Len(calls) + 1
    /\ calls'[Len(calls')].args.given = calls[Len(calls)].args.given
    /\ thrown = ""
    /\ thrown' = ""

HasHeader(b, header) ==
    \E i \in 1..Len(b) : \E k \in 1..Len(b[i]) : b[i][k] = header

\* The addLabels calls issued that carry a label with this prefix.
CallsWithPrefix(prefix) ==
    { k \in Issued("addLabels") :
         \E j \in 1..Len(calls[k].args.labels) : calls[k].args.labels[j][1] = prefix }

\* C14: on a body without the header of a section, findPlugins and
\* findPlatforms return the empty list and the run adds no label of that
\* kind; without the Impact or the workarounds header the tier is TBD; no
\* run ends by an exception other than a failed request.
C14_MissingHeaderGivesNothing ==
    /\ ~HasHeader(body, H_PLUGIN) =>
          /\ findPlugins(body) = <<>>
          /\ CallsWithPrefix("[Plugin]") = {}
    /\ ~HasHeader(body, H_PLATFORM) =>
          /\ findPlatforms(body) = <<>>
          /\ CallsWithPrefix("[Platform]") = {}
    /\ ( /\ ~HasHeader(body, H_IMPACT) \/ ~HasHeader(body, H_WORK)
         /\ priority # Undefined ) => priority = "TBD"
    /\ thrown \in { "", "RequestError" }

\* A run for a new bug whose body is free text has ended: the one call that
\* added labels added [Pri] TBD.
C14_Witness ==
    /\ pc = "done"
    /\ action = "opened"
    /\ body = << << "Alpha" >> >>
    /\ priority = "TBD"
    /\ Cardinality(Issued("addLabels")) = 1
    /\ AddLabelsIssuedWith(<< PriLabel("TBD") >>)

RECURSIVE CommaEntriesFrom(_, _, _)
\* The entries of a comma-separated list: cur is the entry being read.
CommaEntriesFrom(line, k, cur) ==
    IF k > Len(line) THEN << cur >>
    ELSE IF line[k] = ","
         THEN << cur >> \o CommaEntriesFrom(line, k + 1, <<>>)
         ELSE CommaEntriesFrom(line, k + 1, Append(cur, line[k]))

RECURSIVE WithoutLeadingSpace(_)
WithoutLeadingSpace(entry) ==
    IF entry # <<>> /\ Head(entry) = " " THEN WithoutLeadingSpace(Tail(entry))
    ELSE entry

RECURSIVE WithoutTrailingSpace(_)
WithoutTrailingSpace(entry) ==
    IF entry # <<>> /\ entry[Len(entry)] = " "
    THEN WithoutTrailingSpace(SubSeq(entry, 1, Len(entry) - 1))
    ELSE entry

\* The entry without the white space around it.
Trimmed(entry) == WithoutTrailingSpace(WithoutLeadingSpace(entry))

\* The entries of the list in their order, each without the white space
\* around it, the empty ones left out.
ListedEntries(line) ==
    LET entries == CommaEntriesFrom(line, 1, <<>>)
        trimmed == [ k \in 1..Len(entries) |-> Trimmed(entries[k]) ]
    IN  SelectSeqOf(trimmed, { e \in Range(trimmed) : e # <<>> })

\* The names, without the prefix, of the labels that the run has added with
\* this prefix.
NamesAdded(prefix) ==
    IF CallsWithPrefix(prefix) = {} THEN <<>>
    ELSE LET labels == calls[Min(CallsWithPrefix(prefix))].args.labels
         IN  [ k \in 1..Len(labels) |-> labels[k][2] ]

\* The run for a new issue is past the step that adds the labels of a list.
PastPluginStep == NewIssueAction /\ pc \in { "platformLabels", "priorityLabel", "done" }
PastPlatformStep == NewIssueAction /\ pc \in { "priorityLabel", "done" }

\* C15: for every platform list captured, whatever the white space after
\* its commas, the platforms of the run are the entries of the list in their
\* order, without Self-hosted and without the empty ones.
C15_PlatformsWithoutSelfHosted ==
    ( PastPlatformStep /\ PlatformMatches(body) # {} ) =>
       LET entries == ListedEntries(body[Min(PlatformMatches(body)) + 2])
       IN  NamesAdded("[Platform]") =
              SelectSeqOf(entries, Range(entries) \ { << "Self-hosted" >> })

\* C16: for every plugin list captured, the plugins of the run are the
\* entries of the list in their order, each without the white space around
\* it, the empty and the blank ones left out.
C16_PluginsTrimmed ==
    ( PastPluginStep /\ PluginMatches(body) # {} ) =>
       NamesAdded("[Plugin]") = ListedEntries(body[Min(PluginMatches(body)) + 2])

\* The links of the form [https://]github.com/{orgs|users}/{ownerName}/
\* projects/{projectNumber}, and what each names.
LinksOfTheForm ==
    { [ link |-> OrgLink, ownerType |-> "organization",
        ownerName |-> << "johns-test-org" >>, projectNumber |-> 11 ],
      [ link |-> UserLink, ownerType |-> "user",
        ownerName |-> << "bob" >>, projectNumber |-> 7 ] }

\* The run is past line 378.
PastBoardResolution ==
    /\ ConfigurationPresent
    /\ pc \notin { "projectToken", "projectBoard", "getProjectDetails" }

\* C17: getProjectDetails queries the graph for a link of the form with the
\* owner name and the project number of the link as an integer, and what it
\* returns carries these and the owner type, organization for orgs and user
\* for users; for any other link it issues no query and returns the empty
\* object, which no resolved board is.
C17_LinkResolvedOrInvalid ==
    PastBoardResolution =>
       /\ \A f \in LinksOfTheForm :
             projectBoardLink = f.link =>
                /\ Issued("getProject") = { 1 }
                /\ calls[1].args = [ ownerName |-> f.ownerName,
                                     projectNumber |-> f.projectNumber ]
                /\ projectInfo = EmptyObject => ( pc = "thrown" /\ Len(calls) = 1 )
                /\ projectInfo # EmptyObject =>
                      /\ { "ownerType", "ownerName", "projectNumber" }
                            \subseteq DOMAIN projectInfo
                      /\ projectInfo.ownerType = f.ownerType
                      /\ projectInfo.ownerName = f.ownerName
                      /\ projectInfo.projectNumber = f.projectNumber
       /\ projectBoardLink \notin { f.link : f \in LinksOfTheForm } =>
             /\ Issued("getProject") = {}
             /\ projectInfo = EmptyObject
             /\ failure = ""

\* A link with no /projects/N: the run is at line 380 with the empty object
\* and no query issued.
C17_Witness ==
    /\ pc = "isInProject"
    /\ projectBoardLink = LinkWithoutProject
    /\ projectInfo = EmptyObject
    /\ calls = <<>>

C19_MutationUsesResolvedIds ==
    /\ itemNodeId # Undefined => itemNodeId = BoardItemOf(node_id)
    /\ \A m \in Issued("updateProjectV2ItemFieldValue") :
          /\ \E r \in Issued("getProject") : r < m
          /\ \E l \in Issued("getIssueProjectDetails") : l < m
          /\ calls[m].args.input.projectId = projectInfo.projectNodeId
          /\ calls[m].args.input.fieldId = projectInfo.priority.id
          /\ calls[m].args.input.itemId = BoardItemOf(node_id)

\* The check has returned.
Returned(check) ==
    CASE check = "hasPriorityLabels" -> pc \in { "hasEscalatedLabel", "isBug", "done" }
      [] check = "hasEscalatedLabel" -> pc \in { "isBug", "done" }
      [] check = "isBug" -> pc = "done"

Listed(names) == Range(issueLabels) \cap names # {}

PriNames == { l \in Range(issueLabels) \cup { eventLabel } : l[1] = "[Pri]" }
EscalatedNames == { Label("[Status]", << "Escalated" >>),
                    Label("[Status]", << "Escalated", " ", "to", " ", "Kitkat" >>) }
EscalatedEventNames ==
    { l \in { eventLabel } : l[1] = "[Status]" /\ l[2] # <<>> /\ l[2][1] = "Escalated" }
BugNames == { Label("[Type]", << "Bug" >>) }

\* What the checks say of priority labels and of bugs, and that no check
\* changes the labels of the issue.
PriorityAndBugChecks ==
    /\ Returned("hasPriorityLabels")' =>
          ( priorityLabels' # <<>> ) =
             ( Listed(PriNames) \/ ( action = "labeled" /\ eventLabel \in PriNames ) )
    /\ Returned("isBug")' =>
          isBugIssue' =
             ( Listed(BugNames) \/ ( action = "labeled" /\ eventLabel \in BugNames ) )
    /\ issueLabels' = issueLabels

PriLabelsOnIssue == { l \in Range(issueLabels) : l[1] = "[Pri]" }

IsLoadedMessage(e) ==
    /\ e.kind = "message"
    /\ e.data.event = "videopress_loading_state"
    /\ e.data.state = "loaded"
IsPlayingMessage(e) == e.kind = "message" /\ e.data.event = "videopress_playing"

\* The order of the player states.
StateRank(state) ==
    CASE state = "not-rendered" -> 0
      [] state = "loaded" -> 1
      [] state = "first-play" -> 2
      [] state = "ready" -> 3

\* The senders of the messages posted in the step.
PostedInStepBy ==
    { hook'.posted[k].by : k \in (Len(hook.posted) + 1)..Len(hook'.posted) }

\* The step handles a 'playing' message and no 'loaded' message came before.
PlayingBeforeLoaded ==
    /\ Len(hook'.handled) = Len(hook.handled) + 1
    /\ IsPlayingMessage(hook'.handled[Len(hook'.handled)])
    /\ \A i \in 1..Len(hook.handled) : ~IsLoadedMessage(hook.handled[i])

====
